---- MODULE Spec2Model ----
(***************************************************************************)
(* Model of web_gui.py: the HTTP front end that stages a submitted Lua     *)
(* source into a temporary directory, runs main.py on it as a child        *)
(* process and relays the exit status and the captured streams as JSON.    *)
(*                                                                         *)
(* One handler thread per accepted connection (ThreadingHTTPServer), one   *)
(* request per connection (protocol HTTP/1.0).  Text is a sequence of      *)
(* characters, a request body is a sequence of lexical units.              *)
(***************************************************************************)
EXTENDS Integers, Sequences, FiniteSets, TLC

\* ------------------------------------------------------------------ bounds
MaxThreads == 2     \* connections accepted (one handler thread each)
MaxNames   == 2     \* directory names the temp-file facility can hand out

Threads == 1..MaxThreads
Names   == 1..MaxNames

\* ------------------------------------------------------------------- text
WS == {" "}

RECURSIVE LStrip(_)
LStrip(s) == IF s # <<>> /\ Head(s) \in WS THEN LStrip(Tail(s)) ELSE s

RECURSIVE RStrip(_)
RStrip(s) == IF s # <<>> /\ s[Len(s)] \in WS THEN RStrip(SubSeq(s, 1, Len(s) - 1)) ELSE s

\* str.strip()
Strip(s) == RStrip(LStrip(s))

\* --------------------------------------------------------- Python values
PyVal(ty, v, items) == [ty |-> ty, v |-> v, items |-> items]
Unset       == PyVal("unset", <<>>, <<>>)
PyNone      == PyVal("none", <<>>, <<>>)
PyStr(s)    == PyVal("str", s, <<>>)
PyInt(d)    == PyVal("int", d, <<>>)
PyList(es)  == PyVal("list", <<>>, es)
PyDict(kvs) == PyVal("dict", <<>>, kvs)
EmptyDict   == PyDict(<<>>)

\* bool(v)
Truthy(v) ==
  CASE v.ty = "str"  -> v.v # <<>>
    [] v.ty = "int"  -> v.v # <<"0">>
    [] v.ty = "list" -> v.items # <<>>
    [] v.ty = "dict" -> v.items # <<>>
    [] OTHER         -> FALSE

\* v or ""
OrEmpty(v) == IF Truthy(v) THEN v ELSE PyStr(<<>>)

\* str(v) for the values `v or ""` can yield from a decoded scalar
Str(v) == v.v

\* dict.get(key): the last binding of key wins, None when there is none
RECURSIVE DictGetFrom(_, _, _)
DictGetFrom(kvs, key, i) ==
  IF i = 0 THEN PyNone
  ELSE IF kvs[i][1] = key THEN kvs[i][2]
  ELSE DictGetFrom(kvs, key, i - 1)

DictGet(d, key) == DictGetFrom(d.items, key, Len(d.items))

\* only dict has .get: list, str, int and None raise AttributeError
HasGet(v) == v.ty = "dict"

\* ------------------------------------------------- request body, decoding
Tok(k)    == [t |-> k, v |-> <<>>]
StrTok(s) == [t |-> "str", v |-> s]
NumTok(d) == [t |-> "num", v |-> d]
BadByte   == Tok("xff")       \* a byte that is not valid UTF-8

SOURCE     == <<"s", "o", "u", "r", "c", "e">>
SCRIPT_KEY == <<"s", "c", "r", "i", "p", "t", "_", "k", "e", "y">>

DecodeErr(k) == [ok |-> FALSE, err |-> k, val |-> Unset]
DecodeOk(v)  == [ok |-> TRUE, err |-> "", val |-> v]

\* bytes.decode("utf-8")
Utf8Valid(raw) == \A i \in 1..Len(raw) : raw[i].t # "xff"

IsScalarTok(tk) == tk.t \in {"str", "num", "null"}

ScalarValue(tk) ==
  CASE tk.t = "str" -> PyStr(tk.v)
    [] tk.t = "num" -> PyInt(tk.v)
    [] OTHER        -> PyNone

\* members of an object after "{" or ",": key ":" scalar, then "," or "}"
RECURSIVE ParseMembers(_, _, _)
ParseMembers(s, i, acc) ==
  IF i + 3 > Len(s) THEN DecodeErr("JSONDecodeError")
  ELSE IF s[i].t = "str" /\ s[i + 1].t = ":" /\ IsScalarTok(s[i + 2])
       THEN LET acc2 == Append(acc, <<s[i].v, ScalarValue(s[i + 2])>>)
            IN  IF s[i + 3].t = "}"
                THEN IF i + 3 = Len(s) THEN DecodeOk(PyDict(acc2))
                     ELSE DecodeErr("JSONDecodeError")
                ELSE IF s[i + 3].t = ","
                     THEN ParseMembers(s, i + 4, acc2)
                     ELSE DecodeErr("JSONDecodeError")
       ELSE DecodeErr("JSONDecodeError")

\* elements of an array after "[" or ",": scalar, then "," or "]"
RECURSIVE ParseElements(_, _, _)
ParseElements(s, i, acc) ==
  IF i + 1 > Len(s) THEN DecodeErr("JSONDecodeError")
  ELSE IF IsScalarTok(s[i])
       THEN LET acc2 == Append(acc, ScalarValue(s[i]))
            IN  IF s[i + 1].t = "]"
                THEN IF i + 1 = Len(s) THEN DecodeOk(PyList(acc2))
                     ELSE DecodeErr("JSONDecodeError")
                ELSE IF s[i + 1].t = ","
                     THEN ParseElements(s, i + 2, acc2)
                     ELSE DecodeErr("JSONDecodeError")
       ELSE DecodeErr("JSONDecodeError")

\* json.loads on the grammar: scalar | "[" scalars "]" | "{" members "}"
JsonLoads(s) ==
  IF s = <<>> THEN DecodeErr("JSONDecodeError")
  ELSE IF IsScalarTok(s[1])
       THEN IF Len(s) = 1 THEN DecodeOk(ScalarValue(s[1]))
            ELSE DecodeErr("JSONDecodeError")
  ELSE IF s[1].t = "{"
       THEN IF Len(s) >= 2 /\ s[2].t = "}"
            THEN IF Len(s) = 2 THEN DecodeOk(EmptyDict)
                 ELSE DecodeErr("JSONDecodeError")
            ELSE ParseMembers(s, 2, <<>>)
  ELSE IF s[1].t = "["
       THEN IF Len(s) >= 2 /\ s[2].t = "]"
            THEN IF Len(s) = 2 THEN DecodeOk(PyList(<<>>))
                 ELSE DecodeErr("JSONDecodeError")
            ELSE ParseElements(s, 2, <<>>)
  ELSE DecodeErr("JSONDecodeError")

\* json.loads(raw.decode("utf-8"))
Decode(raw) ==
  IF ~Utf8Valid(raw) THEN DecodeErr("UnicodeDecodeError") ELSE JsonLoads(raw)

\* the Content-Length header: absent, not a number, or an integer
NoLen     == [k |-> "absent", n |-> 0]
JunkLen   == [k |-> "junk", n |-> 0]
IntLen(n) == [k |-> "int", n |-> n]

Min(a, b) == IF a < b THEN a ELSE b

\* _read_request_json: the exception it raises, or the payload it returns
ReadRequestJsonResult(clen, body) ==
  IF clen.k = "junk" THEN DecodeErr("ValueError")
  ELSE LET length == IF clen.k = "absent" THEN 0 ELSE clen.n
       IN  IF length <= 0 THEN DecodeOk(EmptyDict)
           ELSE LET raw == SubSeq(body, 1, Min(length, Len(body)))
                    d   == Decode(raw)
                IN  IF d.ok THEN d
                    ELSE IF d.err = "JSONDecodeError" THEN DecodeOk(EmptyDict)
                    ELSE d

BytesReadAll(clen, body) == Len(body)

\* bytes _read_request_json takes from rfile: rfile.read(length) returns at
\* the end of the stream when the client sent fewer bytes and stopped sending
BytesRead(clen, body) ==
  IF clen.k = "int" /\ clen.n > 0 THEN Min(clen.n, Len(body)) ELSE 0

\* ------------------------------------------------------- requests clients send
SrcX    == <<"x">>
SrcPad  == <<" ", "x", " ">>
Blank   == <<" ">>
KeyK    == <<"k">>
KeyPad  == <<" ", "k", " ">>

Member(key, tk) == <<StrTok(key), Tok(":"), tk>>
Obj1(m1)        == <<Tok("{")>> \o m1 \o <<Tok("}")>>
Obj2(m1, m2)    == <<Tok("{")>> \o m1 \o <<Tok(",")>> \o m2 \o <<Tok("}")>>

ObjectBodies ==
  { Obj1(Member(SOURCE, StrTok(SrcX))),
    Obj2(Member(SOURCE, StrTok(SrcPad)), Member(SCRIPT_KEY, StrTok(KeyPad))),
    Obj2(Member(SOURCE, StrTok(SrcX)), Member(SCRIPT_KEY, StrTok(Blank))),
    Obj1(Member(SOURCE, NumTok(<<"5">>))),
    Obj1(Member(SOURCE, StrTok(Blank))),
    Obj1(Member(SOURCE, StrTok(<<>>))),
    Obj1(Member(SOURCE, Tok("null"))),
    Obj1(Member(SCRIPT_KEY, StrTok(KeyK))),
    <<Tok("{"), Tok("}")>> }

NonObjectBodies ==
  { <<Tok("["), NumTok(<<"5">>), Tok("]")>>,
    <<StrTok(SrcX)>>,
    <<Tok("null")>> }

MalformedBodies ==
  { <<Tok("{")>>,
    <<Tok("{"), StrTok(SOURCE), Tok("}")>>,
    <<BadByte>>,
    <<Tok("{"), BadByte, Tok("}")>> }

Bodies == ObjectBodies \cup NonObjectBodies \cup MalformedBodies

Request(path, clen, body) ==
  [method |-> "POST", path |-> path, clen |-> clen, body |-> body]

GetRequest(path) ==
  [method |-> "GET", path |-> path, clen |-> NoLen, body |-> <<>>]

ValidBody == Obj1(Member(SOURCE, StrTok(SrcX)))

Requests ==
  { Request("/deobfuscate", IntLen(Len(b)), b) : b \in Bodies }
  \cup { Request("/deobfuscate", c, ValidBody) :
           c \in {NoLen, JunkLen, IntLen(0), IntLen(-1),
                  IntLen(Len(ValidBody) - 1), IntLen(Len(ValidBody) + 1)} }
  \cup { Request("/deobfuscate", NoLen, <<>>) }
  \cup { Request("/other", IntLen(Len(b)), b) :
           b \in {ValidBody, <<BadByte>>, <<Tok("[")>>} }
  \cup { Request("/other", NoLen, <<>>) }
  \cup { GetRequest(path) : path \in {"/", "/index.html", "/other", "/deobfuscate"} }

\* requests sent while several connections are handled at the same time
ConcurrentRequests ==
  { Request("/deobfuscate", IntLen(Len(b)), b) :
      b \in { Obj1(Member(SOURCE, StrTok(SrcX))),
              Obj2(Member(SOURCE, StrTok(SrcPad)), Member(SCRIPT_KEY, StrTok(KeyPad))),
              Obj1(Member(SOURCE, StrTok(Blank))),
              <<Tok("["), NumTok(<<"5">>), Tok("]")>> } }
  \cup { Request("/other", IntLen(Len(ValidBody)), ValidBody) }
  \cup { GetRequest("/") }

\* the requests of S in some fixed order
InOrder(S) ==
  CHOOSE s \in [1..Cardinality(S) -> S] : \A r \in S : \E i \in DOMAIN s : s[i] = r

\* MaxThreads clients, each sending a request of S. The handler threads are
\* interchangeable (ThreadingHTTPServer starts one per connection, all running
\* the same handler), so of the loads that differ only in which connection
\* sends which request one is kept
ConcurrentLoads(S) ==
  LET s == InOrder(S)
  IN  { [t \in Threads |-> s[g[t]]] :
          g \in { h \in [Threads -> DOMAIN s] :
                    \A i, j \in Threads : i < j => h[i] <= h[j] } }

\* what the clients do: one client sending any request, or MaxThreads clients
\* connecting one after the other, each request handled on its own thread
ClientLoads ==
  { <<r>> : r \in Requests } \cup ConcurrentLoads(ConcurrentRequests)

\* requests sent at the same time where whole behaviours are followed
LiveRequests ==
  { Request("/deobfuscate", IntLen(Len(b)), b) :
      b \in {ValidBody, Obj1(Member(SOURCE, StrTok(Blank)))} }
  \cup { GetRequest("/") }

LiveLoads ==
  { <<r>> : r \in Requests } \cup ConcurrentLoads(LiveRequests)

\* ------------------------------------------------------------------ state
VARIABLES
  clients,     \* the request each connecting client sends, in connection order
  pc,          \* where each handler thread is
  req,         \* the request line and headers of each connection, as sent
  rfile,       \* body bytes of each connection not yet read
  payload,     \* do_POST local
  source,      \* do_POST local
  script_key,  \* do_POST local
  tmpdir,      \* do_POST local: name of the TemporaryDirectory, 0 = none
  cmd,         \* do_POST local: argument vector
  child,       \* the process subprocess.run waits for, 0 = none
  result,      \* do_POST local
  exc,         \* exception in flight in the thread, "" = none
  resp,        \* responses written to each connection
  fs,          \* the temp root: which directories exist and their input.lua
  procs,       \* child processes spawned, in spawn order
  hist,        \* per thread: what its handling has done so far
  conn         \* per connection: "open", or "closed" once the client has gone

vars == <<clients, pc, req, rfile, payload, source, script_key, tmpdir, cmd, child,
          result, exc, resp, fs, procs, hist, conn>>

locals == <<payload, source, script_key, tmpdir, cmd, child, result>>

NoRequest == Request("", NoLen, <<>>)
NoFile    == [exists |-> FALSE, text |-> <<>>]
NoDir     == [exists |-> FALSE, owner |-> 0, file |-> NoFile]
NoStream  == [pid |-> 0, fd |-> 0]
NoResult  == [set |-> FALSE, returncode |-> 0, stdout |-> NoStream, stderr |-> NoStream]
NoHist    == [decoded |-> FALSE, nread |-> 0, mkdirs |-> 0, rmdirs |-> 0,
              runs |-> 0, spawns |-> 0, foreign |-> FALSE, index |-> ""]

Init ==
  /\ clients \in ClientLoads
  /\ pc = [t \in Threads |-> "idle"]
  /\ req = [t \in Threads |-> NoRequest]
  /\ rfile = [t \in Threads |-> <<>>]
  /\ payload = [t \in Threads |-> Unset]
  /\ source = [t \in Threads |-> <<>>]
  /\ script_key = [t \in Threads |-> <<>>]
  /\ tmpdir = [t \in Threads |-> 0]
  /\ cmd = [t \in Threads |-> <<>>]
  /\ child = [t \in Threads |-> 0]
  /\ result = [t \in Threads |-> NoResult]
  /\ exc = [t \in Threads |-> ""]
  /\ resp = [t \in Threads |-> <<>>]
  /\ fs = [d \in Names |-> NoDir]
  /\ procs = <<>>
  /\ hist = [t \in Threads |-> NoHist]
  /\ conn = [t \in Threads |-> "open"]

\* ---------------------------------------------------------------- helpers
IsDeobfuscatePathAny(path) == TRUE

\* do_POST serves exactly this path
IsDeobfuscatePath(path) == path = "/deobfuscate"

IsIndexPathRootOnly(path) == path = "/"

\* do_GET serves the page under these paths
IsIndexPath(path) == path \in {"/", "/index.html"}

\* the text of INDEX_PATH
IndexHtml == "index.html"

\* _send_html(payload)
SendHtml(html) ==
  [status |-> 200, ctype |-> "text/html", body |-> [html |-> html]]

\* send_error(status, message): an HTML error page
SendError(status, message) ==
  [status |-> status, ctype |-> "text/html", body |-> [message |-> message]]

\* _send_json(payload, status)
SendJson(body, status) ==
  [status |-> status, ctype |-> "application/json", body |-> body]

ErrorBody == [ok |-> FALSE, error |-> "No source provided."]

ResultBodySigned(r) ==
  [ok |-> r.returncode <= 0, returncode |-> r.returncode,
   output |-> r.stdout, stderr |-> r.stderr]

\* the response dict built from the CompletedProcess
ResultBody(r) ==
  [ok |-> r.returncode = 0, returncode |-> r.returncode,
   output |-> r.stdout, stderr |-> r.stderr]

ResultStatusByExit(r) == IF r.returncode = 0 THEN 200 ELSE 500

\* the status _send_json uses for the result: its default, HTTPStatus.OK
ResultStatus(r) == 200

IsBlankNoStrip(src) == src = <<>>

\* not source.strip()
IsBlank(src) == Strip(src) = <<>>

StagedTextStripped(src) == Strip(src)

\* the text temp_path.write_text(source) puts in input.lua
StagedText(src) == src

FreeNamesUnchecked(f) == Names

\* names mkdtemp may return: those no directory carries yet
FreeNames(f) == {d \in Names : ~f[d].exists}

NameChars == <<"a", "b", "c", "d", "e", "f">>

\* str(Path(tmpdir) / "input.lua")
PathOf(d) == <<"/tmp/", NameChars[d], "/input.lua">>

DirOfPath(path) == CHOOSE d \in Names : PathOf(d) = path

Arg(w) == <<w>>

BuildCmdAlwaysKey(path, key) ==
  <<Arg("sys.executable"), Arg("main.py"), Arg("--format"), Arg("lua"),
    Arg("--no-report"), Arg("--no-execute-output"), Arg("--force"), path,
    Arg("--script-key"), key>>

\* the argument vector of the child
BuildCmd(path, key) ==
  <<Arg("sys.executable"), Arg("main.py"), Arg("--format"), Arg("lua"),
    Arg("--no-report"), Arg("--no-execute-output"), Arg("--force"), path>>
  \o (IF key # <<>> THEN <<Arg("--script-key"), key>> ELSE <<>>)

AfterWithOnSuccess(f, d, e) == IF e = "" THEN [f EXCEPT ![d] = NoDir] ELSE f

\* the temp root once the with block has been left with exception e in flight
AfterWith(f, d, e) == [f EXCEPT ![d] = NoDir]

CompletedProcessLatest(p) ==
  [set |-> TRUE, returncode |-> procs[Len(procs)].returncode,
   stdout |-> [pid |-> Len(procs), fd |-> 1], stderr |-> [pid |-> Len(procs), fd |-> 2]]

\* the CompletedProcess subprocess.run returns for the process it waited for
CompletedProcess(p) ==
  [set |-> TRUE, returncode |-> procs[p].returncode,
   stdout |-> [pid |-> p, fd |-> 1], stderr |-> [pid |-> p, fd |-> 2]]

ExitCodes == {0, 1, -9}

ChildDoneOrTimeout(p) == TRUE

\* subprocess.run is called without timeout: it returns when the child exited
ChildDone(p) == procs[p].state = "exited"

\* an exception leaves do_POST: socketserver logs it and closes the connection
Raise(t, e) ==
  /\ exc' = [exc EXCEPT ![t] = e]
  /\ pc' = [pc EXCEPT ![t] = "faulted"]

MayDispatchSerial(t) == \A u \in Threads : u < t => pc[u] \in {"done", "faulted"}

\* ThreadingHTTPServer hands each connection to a thread of its own, so the
\* accept loop takes the next connection whatever the earlier handlers do
MayDispatch(t) == TRUE

\* ---------------------------------------------------------------- actions
\* the next client connects and sends its request; a handler thread starts
Accept(t) ==
  /\ pc[t] = "idle"
  /\ t <= Len(clients)
  /\ \A u \in Threads : u < t => pc[u] # "idle"
  /\ MayDispatch(t)
  /\ req' = [req EXCEPT ![t] = clients[t]]
  /\ rfile' = [rfile EXCEPT ![t] = clients[t].body]
  /\ pc' = [pc EXCEPT ![t] = IF clients[t].method = "GET" THEN "do_GET" ELSE "do_POST"]
  /\ UNCHANGED <<clients, conn, locals, exc, resp, fs, procs, hist>>

\* do_GET: 404 for a path that is not the page, else the page or a 500
DoGet(t) ==
  /\ pc[t] = "do_GET"
  /\ IF ~IsIndexPath(req[t].path)
     THEN /\ resp' = [resp EXCEPT ![t] = Append(@, SendError(404, "Not Found"))]
          /\ UNCHANGED hist
     ELSE \/ /\ resp' = [resp EXCEPT ![t] = Append(@, SendHtml(IndexHtml))]
             /\ hist' = [hist EXCEPT ![t].index = "read"]
          \/ /\ resp' = [resp EXCEPT ![t] = Append(@, SendError(500, "index.html missing"))]
             /\ hist' = [hist EXCEPT ![t].index = "OSError"]
  /\ pc' = [pc EXCEPT ![t] = "done"]
  /\ UNCHANGED <<clients, conn, req, rfile, locals, exc, fs, procs>>

DoPostRoute(t) ==
  /\ pc[t] = "do_POST"
  /\ IF ~IsDeobfuscatePath(req[t].path)
     THEN /\ resp' = [resp EXCEPT ![t] = Append(@, SendError(404, "Not Found"))]
          /\ pc' = [pc EXCEPT ![t] = "done"]
     ELSE /\ pc' = [pc EXCEPT ![t] = "read_json"]
          /\ UNCHANGED resp
  /\ UNCHANGED <<clients, conn, req, rfile, locals, exc, fs, procs, hist>>

ReadRequestJson(t) ==
  /\ pc[t] = "read_json"
  /\ LET r == ReadRequestJsonResult(req[t].clen, rfile[t])
         n == BytesRead(req[t].clen, rfile[t])
     IN  /\ rfile' = [rfile EXCEPT ![t] = SubSeq(@, n + 1, Len(@))]
         /\ hist' = [hist EXCEPT ![t].decoded = TRUE, ![t].nread = n]
         /\ IF r.ok
            THEN /\ payload' = [payload EXCEPT ![t] = r.val]
                 /\ pc' = [pc EXCEPT ![t] = "validate"]
                 /\ UNCHANGED exc
            ELSE /\ Raise(t, r.err)
                 /\ UNCHANGED payload
  /\ UNCHANGED <<clients, conn, req, source, script_key, tmpdir, cmd, child, result, resp, fs, procs>>

Validate(t) ==
  /\ pc[t] = "validate"
  /\ IF ~HasGet(payload[t])
     THEN /\ Raise(t, "AttributeError")
          /\ UNCHANGED <<source, script_key, resp>>
     ELSE LET src == Str(OrEmpty(DictGet(payload[t], SOURCE)))
              key == Strip(Str(OrEmpty(DictGet(payload[t], SCRIPT_KEY))))
          IN  /\ source' = [source EXCEPT ![t] = src]
              /\ script_key' = [script_key EXCEPT ![t] = key]
              /\ UNCHANGED exc
              /\ IF IsBlank(src)
                 THEN /\ resp' = [resp EXCEPT ![t] = Append(@, SendJson(ErrorBody, 400))]
                      /\ pc' = [pc EXCEPT ![t] = "done"]
                 ELSE /\ pc' = [pc EXCEPT ![t] = "mkdtemp"]
                      /\ UNCHANGED resp
  /\ UNCHANGED <<clients, conn, req, rfile, payload, tmpdir, cmd, child, result, fs, procs, hist>>

MkDtemp(t) ==
  /\ pc[t] = "mkdtemp"
  /\ IF FreeNames(fs) = {}
     THEN /\ Raise(t, "FileExistsError")
          /\ UNCHANGED <<tmpdir, fs, hist>>
     ELSE \E d \in FreeNames(fs) :
            /\ fs' = [fs EXCEPT ![d] = [exists |-> TRUE, owner |-> t, file |-> NoFile]]
            /\ tmpdir' = [tmpdir EXCEPT ![t] = d]
            /\ hist' = [hist EXCEPT ![t].mkdirs = @ + 1]
            /\ pc' = [pc EXCEPT ![t] = "write_text"]
            /\ UNCHANGED exc
  /\ UNCHANGED <<clients, conn, req, rfile, payload, source, script_key, cmd, child, result, resp, procs>>

RaiseInWithRetry(t, e) ==
  /\ exc' = exc
  /\ pc' = pc

\* an exception inside the with block: __exit__ runs before it leaves do_POST
RaiseInWith(t, e) ==
  /\ exc' = [exc EXCEPT ![t] = e]
  /\ pc' = [pc EXCEPT ![t] = "exit_with"]

WriteText(t) ==
  /\ pc[t] = "write_text"
  /\ \/ /\ fs[tmpdir[t]].exists
        /\ fs' = [fs EXCEPT ![tmpdir[t]].file = [exists |-> TRUE, text |-> StagedText(source[t])]]
        /\ hist' = [hist EXCEPT ![t].foreign = @ \/ fs[tmpdir[t]].owner # t]
        /\ pc' = [pc EXCEPT ![t] = "run"]
        /\ UNCHANGED exc
     \/ /\ RaiseInWith(t, "OSError")
        /\ UNCHANGED <<fs, hist>>
  /\ UNCHANGED <<clients, conn, req, rfile, locals, resp, procs>>

Run(t) ==
  /\ pc[t] = "run"
  /\ LET argv == BuildCmd(PathOf(tmpdir[t]), script_key[t])
     IN  /\ cmd' = [cmd EXCEPT ![t] = argv]
         /\ \/ /\ procs' = Append(procs, [argv |-> argv, cwd |-> "REPO_ROOT",
                                          state |-> "running", returncode |-> 0,
                                          input |-> NoFile, parent |-> t])
               /\ child' = [child EXCEPT ![t] = Len(procs) + 1]
               /\ hist' = [hist EXCEPT ![t].runs = @ + 1, ![t].spawns = @ + 1]
               /\ pc' = [pc EXCEPT ![t] = "wait"]
               /\ UNCHANGED exc
            \/ /\ RaiseInWith(t, "OSError")
               /\ hist' = [hist EXCEPT ![t].runs = @ + 1]
               /\ UNCHANGED <<procs, child>>
  /\ UNCHANGED <<clients, conn, req, rfile, payload, source, script_key, tmpdir, result, resp, fs>>

\* the child reads the file its argument vector names and exits with code rc
ChildExit(p, rc) ==
  /\ procs[p].state = "running"
  /\ LET d == DirOfPath(procs[p].argv[8])
         t == procs[p].parent
     IN  /\ procs' = [procs EXCEPT ![p].state = "exited", ![p].returncode = rc,
                                     ![p].input = IF fs[d].exists THEN fs[d].file ELSE NoFile]
         /\ hist' = [hist EXCEPT ![t].foreign = @ \/ (fs[d].exists /\ fs[d].owner # t)]
  /\ UNCHANGED <<clients, conn, pc, req, rfile, locals, exc, resp, fs>>

\* subprocess.run returns once the child it spawned has exited
Wait(t) ==
  /\ pc[t] = "wait"
  /\ ChildDone(child[t])
  /\ result' = [result EXCEPT ![t] = CompletedProcess(child[t])]
  /\ pc' = [pc EXCEPT ![t] = "exit_with"]
  /\ UNCHANGED <<clients, conn, req, rfile, payload, source, script_key, tmpdir, cmd, child,
                 exc, resp, fs, procs, hist>>

\* TemporaryDirectory.__exit__
ExitWith(t) ==
  /\ pc[t] = "exit_with"
  /\ fs' = AfterWith(fs, tmpdir[t], exc[t])
  /\ hist' = [hist EXCEPT ![t].rmdirs = @ + 1,
                          ![t].foreign = @ \/ (fs[tmpdir[t]].exists /\ fs[tmpdir[t]].owner # t)]
  /\ pc' = [pc EXCEPT ![t] = IF exc[t] = "" THEN "respond" ELSE "faulted"]
  /\ UNCHANGED <<clients, conn, req, rfile, locals, exc, resp, procs>>

\* wfile.write on a connection the client has left delivers nothing; it
\* returns or raises BrokenPipeError, depending on what the socket knows
SendResult(t) ==
  /\ pc[t] = "respond"
  /\ IF conn[t] = "open"
     THEN /\ resp' = [resp EXCEPT ![t] = Append(@, SendJson(ResultBody(result[t]), ResultStatus(result[t])))]
          /\ pc' = [pc EXCEPT ![t] = "done"]
          /\ UNCHANGED exc
     ELSE /\ UNCHANGED resp
          /\ \/ pc' = [pc EXCEPT ![t] = "done"] /\ UNCHANGED exc
             \/ Raise(t, "BrokenPipeError")
  /\ UNCHANGED <<clients, conn, req, rfile, locals, fs, procs, hist>>

Next ==
  \/ \E t \in Threads : Accept(t)
  \/ \E t \in Threads : DoGet(t)
  \/ \E t \in Threads : DoPostRoute(t)
  \/ \E t \in Threads : ReadRequestJson(t)
  \/ \E t \in Threads : Validate(t)
  \/ \E t \in Threads : MkDtemp(t)
  \/ \E t \in Threads : WriteText(t)
  \/ \E t \in Threads : Run(t)
  \/ \E p \in 1..Len(procs), rc \in ExitCodes : ChildExit(p, rc)
  \/ \E t \in Threads : Wait(t)
  \/ \E t \in Threads : ExitWith(t)
  \/ \E t \in Threads : SendResult(t)

Spec == Init /\ [][Next]_vars

\* the temp root after interpreter exit: the finalizer of every
\* TemporaryDirectory still alive, those of handlers inside the with block,
\* removes its directory
AtExit(f) ==
  [d \in Names |->
     IF f[d].exists /\ pc[f[d].owner] \in {"write_text", "run", "wait", "exit_with"}
     THEN NoDir ELSE f[d]]

\* KeyboardInterrupt ends serve_forever, main returns and the process exits:
\* no connection is accepted any more, and the handler threads, which are
\* daemon threads, end where they are; child processes run on
Interrupt ==
  /\ \A t \in Threads : pc[t] \notin {"killed", "refused"}
  /\ \E t \in Threads : pc[t] \notin {"done", "faulted"}
  /\ pc' = [t \in Threads |->
              IF pc[t] = "idle" THEN "refused"
              ELSE IF pc[t] \in {"done", "faulted"} THEN pc[t]
              ELSE "killed"]
  /\ fs' = AtExit(fs)
  /\ UNCHANGED <<clients, conn, req, rfile, locals, exc, resp, procs, hist>>

NextShutdown == Next \/ Interrupt

\* serving, with an interrupt signal arriving at any moment
SpecShutdown == Init /\ [][NextShutdown]_vars

PcOnDisconnectAbort(t) == "exit_with"

\* where the handler is after its client has gone: inside subprocess.run as
\* before, which does not look at the socket
PcOnDisconnect(t) == pc[t]

\* the client of connection t goes away while its request waits for the child
Disconnect(t) ==
  /\ pc[t] = "wait"
  /\ conn[t] = "open"
  /\ conn' = [conn EXCEPT ![t] = "closed"]
  /\ pc' = [pc EXCEPT ![t] = PcOnDisconnect(t)]
  /\ UNCHANGED <<clients, req, rfile, locals, exc, resp, fs, procs, hist>>

\* the state after construction, with the clients of a LiveLoads load
LiveInit == Init /\ clients \in LiveLoads

NextDisconnect == Next \/ \E t \in Threads : Disconnect(t)

\* serving clients that may go away while they wait
SpecDisconnect == LiveInit /\ [][NextDisconnect]_vars

\* child process p, once spawned, exits
ChildExits(p) == p \in 1..Len(procs) /\ \E rc \in ExitCodes : ChildExit(p, rc)

\* the steps of the handler thread of connection t
HandlerStep(t) ==
  \/ DoGet(t) \/ DoPostRoute(t) \/ ReadRequestJson(t) \/ Validate(t)
  \/ MkDtemp(t) \/ WriteText(t) \/ Run(t) \/ Wait(t) \/ ExitWith(t) \/ SendResult(t)

\* the accept loop and every handler thread keep being scheduled; a child
\* process need not ever exit
LiveSpec ==
  /\ LiveInit
  /\ [][Next]_vars
  /\ \A t \in Threads : WF_vars(Accept(t))
  /\ \A t \in Threads : WF_vars(HandlerStep(t))

\* ----------------------------------------------------------------- claims
\* the handling of the request of thread t has ended
Finished(t) == pc[t] \in {"done", "faulted"}

\* the staging directory thread t created is still in the temp root
OwnDirExists(t) == tmpdir[t] # 0 /\ fs[tmpdir[t]].exists /\ fs[tmpdir[t]].owner = t

\* the body as the client sent it, decoded in full
Sent(t) == Decode(req[t].body)

\* the request declares the length of its body
WellFramed(t) == req[t].clen = IntLen(Len(req[t].body))

AllWS(s)    == \A i \in 1..Len(s) : s[i] \in WS
HasNonWS(s) == \E i \in 1..Len(s) : s[i] \notin WS

\* source is absent, empty or only whitespace in dict d
SourceMissing(d) ==
  LET v == DictGet(d, SOURCE)
  IN  v = PyNone \/ (v.ty = "str" /\ AllWS(v.v))

IsRejection(r) ==
  /\ r.status = 400
  /\ r.ctype = "application/json"
  /\ DOMAIN r.body = {"ok", "error"}
  /\ r.body.ok = FALSE
  /\ r.body.error # ""

IsResult(r) ==
  /\ r.ctype = "application/json"
  /\ DOMAIN r.body = {"ok", "returncode", "output", "stderr"}

\* C1: once the handling of a request that created a staging directory has
\* finished (response sent, or an exception left the handler after a failed
\* write or spawn), that directory no longer exists.
C1_StagingRemoved ==
  \A t \in Threads :
    (Finished(t) /\ hist[t].mkdirs > 0) => ~OwnDirExists(t)

\* a request whose spawn raised has finished, after creating its directory
C1_Witness ==
  \E t \in Threads :
    /\ pc[t] = "faulted" /\ exc[t] = "OSError"
    /\ hist[t].mkdirs = 1 /\ cmd[t] # <<>> /\ child[t] = 0

\* C2: a request whose decoded payload has source absent, empty or only
\* whitespace is answered 400 with ok=false and a non-empty error, and its
\* handling creates no directory or file and spawns no child.
C2_BlankSourceRejected ==
  \A t \in Threads :
    (payload[t].ty = "dict" /\ SourceMissing(payload[t])) =>
      /\ pc[t] \in {"validate", "done"}
      /\ pc[t] = "validate" => resp[t] = <<>>
      /\ pc[t] = "done" => (Len(resp[t]) = 1 /\ IsRejection(resp[t][1]))
      /\ hist[t].mkdirs = 0 /\ hist[t].spawns = 0
      /\ tmpdir[t] = 0 /\ child[t] = 0
      /\ \A d \in Names : fs[d].owner # t

\* a whitespace-only source has been rejected
C2_Witness ==
  \E t \in Threads :
    /\ pc[t] = "done" /\ payload[t].ty = "dict"
    /\ DictGet(payload[t], SOURCE) = PyStr(Blank)
    /\ Len(resp[t]) = 1 /\ resp[t][1].status = 400

\* the process spawned for the request of thread t
OwnProcs(t) == {p \in 1..Len(procs) : procs[p].parent = t}

\* C3: in every result response ok is true iff returncode is 0, and
\* returncode is the exit code of the child run for that request.
C3_OkIffZero ==
  \A t \in Threads : \A i \in 1..Len(resp[t]) :
    IsResult(resp[t][i]) =>
      /\ resp[t][i].body.ok = (resp[t][i].body.returncode = 0)
      /\ OwnProcs(t) = {child[t]}
      /\ procs[child[t]].state = "exited"
      /\ resp[t][i].body.returncode = procs[child[t]].returncode

\* a child killed by a signal has been reported
C3_Witness ==
  \E t \in Threads :
    /\ Len(resp[t]) = 1 /\ IsResult(resp[t][1])
    /\ resp[t][1].body.returncode < 0 /\ resp[t][1].body.ok = FALSE

\* the text str() gives for a decoded scalar, empty for None
TextOf(v) == IF v.ty \in {"str", "int"} THEN v.v ELSE <<>>

\* thread t got a /deobfuscate request carrying a JSON object, length declared
ObjectRequest(t) ==
  /\ req[t].path = "/deobfuscate"
  /\ WellFramed(t)
  /\ Sent(t).ok /\ Sent(t).val.ty = "dict"

\* the child of the request of thread t was spawned and has exited
InvocationCompleted(t) ==
  OwnProcs(t) # {} /\ \A p \in OwnProcs(t) : procs[p].state = "exited"

\* C4 as stated: every /deobfuscate request with a well-formed JSON body and a
\* non-empty source is answered 200 with ok, returncode, output and stderr.
C4_NonEmptySourceIs200 ==
  \A t \in Threads :
    (ObjectRequest(t) /\ TextOf(DictGet(Sent(t).val, SOURCE)) # <<>> /\ Finished(t)) =>
      (Len(resp[t]) = 1 /\ resp[t][1].status = 200 /\ IsResult(resp[t][1]))

\* C4 amended: every /deobfuscate request with a well-formed JSON object body
\* whose source has a non-whitespace character, and whose child was spawned
\* and has exited, is answered 200 with ok, returncode, output and stderr; a
\* non-zero exit code gives 200 with ok=false, never a 4xx or 5xx status.
C4_CompletedInvocationIs200 ==
  \A t \in Threads :
    (ObjectRequest(t) /\ HasNonWS(TextOf(DictGet(Sent(t).val, SOURCE)))) =>
      /\ \A i \in 1..Len(resp[t]) : resp[t][i].status = 200 /\ IsResult(resp[t][i])
      /\ (InvocationCompleted(t) /\ Finished(t)) =>
           /\ Len(resp[t]) = 1
           /\ \A p \in OwnProcs(t) :
                procs[p].returncode # 0 => resp[t][1].body.ok = FALSE

\* a child that exited with a non-zero code has been answered with 200
C4_Witness ==
  \E t \in Threads :
    /\ ObjectRequest(t) /\ pc[t] = "done" /\ InvocationCompleted(t)
    /\ procs[child[t]].returncode = 1
    /\ Len(resp[t]) = 1 /\ resp[t][1].status = 200 /\ resp[t][1].body.ok = FALSE

\* the spawn of the child of thread t raised an OS-level error
SpawnFailed(t) ==
  hist[t].mkdirs = 1 /\ cmd[t] # <<>> /\ child[t] = 0 /\ exc[t] = "OSError"

\* C5: when spawning the tool fails with an OS-level error the client gets a
\* 500-class response, and the staging directory is still removed.
C5_SpawnFailureIs500 ==
  \A t \in Threads :
    (SpawnFailed(t) /\ Finished(t)) =>
      /\ Len(resp[t]) = 1 /\ resp[t][1].status >= 500
      /\ ~OwnDirExists(t)

\* C6: a /deobfuscate request whose body is invalid JSON, is not valid UTF-8,
\* or is JSON that is not an object decodes to the empty payload and ends with
\* the 400 rejection; no error leaves the handler.
C6_UnparsableBodyRejected ==
  \A t \in Threads :
    ( /\ req[t].path = "/deobfuscate" /\ WellFramed(t) /\ req[t].body # <<>>
      /\ (~Sent(t).ok \/ Sent(t).val.ty # "dict")
      /\ Finished(t) ) =>
      /\ pc[t] = "done" /\ exc[t] = ""
      /\ payload[t] = EmptyDict
      /\ Len(resp[t]) = 1 /\ IsRejection(resp[t][1])

\* thread t is inside the with block of do_POST
InWith(t) == pc[t] \in {"write_text", "run", "wait", "exit_with"}

\* C7: the staging directories of two requests in flight differ, each is the
\* one its own request created, and no request or child has read, written or
\* deleted a directory of another request.
C7_StagingIsolated ==
  /\ \A t, u \in Threads : (t # u /\ InWith(t) /\ InWith(u)) => tmpdir[t] # tmpdir[u]
  /\ \A t \in Threads : InWith(t) => OwnDirExists(t)
  /\ \A t \in Threads : ~hist[t].foreign

\* two requests wait for their children at the same time
C7_Witness ==
  \E t, u \in Threads :
    t # u /\ pc[t] = "wait" /\ pc[u] = "wait" /\ OwnDirExists(t) /\ OwnDirExists(u)

IsTrimOf(k, raw) ==
  /\ k # <<>> /\ k[1] \notin WS /\ k[Len(k)] \notin WS
  /\ \E i, j \in 1..Len(raw) :
       /\ SubSeq(raw, i, j) = k
       /\ \A m \in 1..Len(raw) : (m < i \/ m > j) => raw[m] \in WS

\* C9: the argument vector is interpreter, entry point, --format, lua,
\* --no-report, --no-execute-output, --force, staged path, then --script-key
\* and the trimmed key iff script_key is non-empty after trimming.
C9_ArgvShape ==
  \A t \in Threads :
    cmd[t] # <<>> =>
      LET raw == TextOf(DictGet(payload[t], SCRIPT_KEY))
      IN  /\ Len(cmd[t]) >= 8
          /\ SubSeq(cmd[t], 1, 7) =
               << <<"sys.executable">>, <<"main.py">>, <<"--format">>, <<"lua">>,
                  <<"--no-report">>, <<"--no-execute-output">>, <<"--force">> >>
          /\ cmd[t][8] = PathOf(tmpdir[t])
          /\ IF HasNonWS(raw)
             THEN /\ Len(cmd[t]) = 10
                  /\ cmd[t][9] = <<"--script-key">>
                  /\ IsTrimOf(cmd[t][10], raw)
             ELSE Len(cmd[t]) = 8
          /\ \A p \in OwnProcs(t) : procs[p].argv = cmd[t] /\ procs[p].cwd = "REPO_ROOT"

\* a child was spawned for a request whose key has surrounding whitespace
C9_Witness ==
  \E t \in Threads :
    /\ child[t] # 0 /\ Len(cmd[t]) = 10 /\ cmd[t][10] = KeyK
    /\ DictGet(payload[t], SCRIPT_KEY) = PyStr(KeyPad)

\* C10: a POST to another path is answered 404 whatever its body; the body
\* is not decoded, no staging directory is created, no child is spawned.
C10_OtherPathIs404 ==
  \A t \in Threads :
    (pc[t] # "idle" /\ req[t].method = "POST" /\ req[t].path # "/deobfuscate") =>
      /\ pc[t] \in {"do_POST", "done"}
      /\ pc[t] = "do_POST" => resp[t] = <<>>
      /\ pc[t] = "done" =>
           (Len(resp[t]) = 1 /\ resp[t][1].status = 404 /\ resp[t][1].ctype = "text/html")
      /\ ~hist[t].decoded /\ hist[t].nread = 0 /\ rfile[t] = req[t].body
      /\ payload[t] = Unset
      /\ hist[t].mkdirs = 0 /\ hist[t].spawns = 0
      /\ tmpdir[t] = 0 /\ child[t] = 0

\* a POST to /other with a body that is not UTF-8 has been answered
C10_Witness ==
  \E t \in Threads :
    /\ pc[t] = "done" /\ req[t].path = "/other" /\ req[t].body = <<BadByte>>
    /\ Len(resp[t]) = 1 /\ resp[t][1].status = 404

\* C11: a GET is answered 200 with the HTML document for / and /index.html
\* when the document can be read, 500 for those paths when it cannot, and 404
\* for every other path; it creates no staging directory and spawns no child.
C11_GetServesPage ==
  \A t \in Threads :
    (pc[t] # "idle" /\ req[t].method = "GET") =>
      /\ pc[t] \in {"do_GET", "done"}
      /\ pc[t] = "do_GET" => resp[t] = <<>>
      /\ pc[t] = "done" =>
           /\ Len(resp[t]) = 1
           /\ IF req[t].path = "/" \/ req[t].path = "/index.html"
              THEN \/ /\ hist[t].index = "read"
                      /\ resp[t][1] = [status |-> 200, ctype |-> "text/html",
                                       body |-> [html |-> "index.html"]]
                   \/ /\ hist[t].index = "OSError"
                      /\ resp[t][1].status = 500
              ELSE resp[t][1].status = 404 /\ hist[t].index = ""
      /\ ~hist[t].decoded /\ hist[t].nread = 0
      /\ hist[t].mkdirs = 0 /\ hist[t].spawns = 0
      /\ tmpdir[t] = 0 /\ child[t] = 0
      /\ \A d \in Names : fs[d].owner # t
      /\ OwnProcs(t) = {}

\* GET /index.html has been answered with the page
C11_Witness ==
  \E t \in Threads :
    /\ pc[t] = "done" /\ req[t].method = "GET" /\ req[t].path = "/index.html"
    /\ Len(resp[t]) = 1 /\ resp[t][1].status = 200

\* thread t waits in subprocess.run for its child, which is still running
BlockedOnChild(t) == pc[t] = "wait" /\ procs[child[t]].state = "running"

\* C12: whatever the other requests do, also when one of them waits forever
\* for its child, every client is accepted and its request is handled until
\* it is finished (answered, if it ended normally) or waits for its own child.
C12_NoStallByOthers ==
  /\ \A u \in Threads :
       (u <= Len(clients)) ~> (Finished(u) \/ BlockedOnChild(u))
  /\ [](\A u \in Threads : pc[u] = "done" => Len(resp[u]) = 1)

\* a later request has been answered while an earlier one waits for its child
C12_Witness ==
  \E t, u \in Threads :
    /\ t < u /\ BlockedOnChild(t)
    /\ pc[u] = "done" /\ Len(resp[u]) = 1

\* the server process has ended
Stopped == \E t \in Threads : pc[t] \in {"killed", "refused"}

\* C13: after an interrupt no new connection is accepted, and every request
\* in flight at the interrupt has completed its handling, response included,
\* and its staging directory is gone once the server process has ended.
C13_ShutdownCompletesInFlight ==
  Stopped =>
    \A t \in Threads :
      /\ pc[t] \in {"refused", "done", "faulted"}
      /\ pc[t] = "done" => Len(resp[t]) = 1
      /\ ~OwnDirExists(t)

\* C14: no step of a request is done twice: at most one staging directory is
\* created and one removal made, subprocess.run is called at most once and
\* spawns at most one child, and at most one response is written.
C14_AtMostOnce ==
  \A t \in Threads :
    /\ hist[t].mkdirs <= 1 /\ hist[t].rmdirs <= 1
    /\ hist[t].runs <= 1 /\ hist[t].spawns <= hist[t].runs
    /\ Cardinality(OwnProcs(t)) = hist[t].spawns
    /\ Cardinality({d \in Names : fs[d].exists /\ fs[d].owner = t}) <= hist[t].mkdirs
    /\ Len(resp[t]) <= 1

\* a failed spawn has not been tried again
C14_Witness ==
  \E t \in Threads :
    /\ pc[t] = "faulted" /\ SpawnFailed(t)
    /\ hist[t].runs = 1 /\ hist[t].spawns = 0 /\ resp[t] = <<>>

\* C15: in a transform request the steps come in this order: validation,
\* directory created, file written with the source exactly as submitted,
\* child spawned, child exited, directory deleted, response written.  So
\* while the child runs the file holds the full source, and the directory is
\* gone when the response is written.
C15_StepOrder ==
  \A t \in Threads :
    /\ hist[t].mkdirs > 0 =>
         /\ payload[t].ty = "dict" /\ HasNonWS(TextOf(DictGet(payload[t], SOURCE)))
         /\ source[t] = TextOf(DictGet(payload[t], SOURCE))
    /\ (OwnDirExists(t) /\ fs[tmpdir[t]].file.exists) =>
         fs[tmpdir[t]].file.text = TextOf(DictGet(payload[t], SOURCE))
    /\ hist[t].runs > 0 => (hist[t].mkdirs = 1 /\ pc[t] \notin {"mkdtemp", "write_text"})
    /\ \A p \in OwnProcs(t) :
         /\ procs[p].state = "running" =>
              /\ pc[t] = "wait" /\ hist[t].rmdirs = 0 /\ resp[t] = <<>>
              /\ OwnDirExists(t)
              /\ fs[tmpdir[t]].file =
                   [exists |-> TRUE, text |-> TextOf(DictGet(payload[t], SOURCE))]
         /\ procs[p].state = "exited" =>
              procs[p].input =
                [exists |-> TRUE, text |-> TextOf(DictGet(payload[t], SOURCE))]
    /\ hist[t].rmdirs > 0 =>
         /\ hist[t].mkdirs = 1 /\ ~OwnDirExists(t)
         /\ \A p \in OwnProcs(t) : procs[p].state = "exited"
    /\ \A i \in 1..Len(resp[t]) :
         IsResult(resp[t][i]) =>
           /\ hist[t].rmdirs = 1 /\ ~OwnDirExists(t)
           /\ OwnProcs(t) # {} /\ \A p \in OwnProcs(t) : procs[p].state = "exited"

\* a child runs while its input.lua holds a source with surrounding blanks
C15_Witness ==
  \E t \in Threads :
    /\ BlockedOnChild(t)
    /\ fs[tmpdir[t]].file = [exists |-> TRUE, text |-> SrcPad]

\* as LiveSpec, and every spawned child eventually exits
LiveSpecExit ==
  /\ LiveSpec
  /\ \A p \in Threads : WF_vars(ChildExits(p))

C17_DisconnectKeepsChild ==
  /\ [](\A t \in Threads :
          conn[t] = "closed" =>
            /\ OwnProcs(t) = {child[t]}
            /\ procs[child[t]].state = "running" =>
                 /\ pc[t] = "wait" /\ OwnDirExists(t)
                 /\ fs[tmpdir[t]].file = [exists |-> TRUE, text |-> source[t]]
            /\ procs[child[t]].state = "exited" =>
                 procs[child[t]].input = [exists |-> TRUE, text |-> source[t]]
            /\ Finished(t) =>
                 /\ procs[child[t]].state = "exited"
                 /\ hist[t].rmdirs = 1 /\ ~OwnDirExists(t)
                 /\ resp[t] = <<>>)
  /\ [][\A t \in Threads :
          conn'[t] # conn[t] => (procs' = procs /\ fs' = fs /\ pc' = pc)]_vars

\* the child of a client that had gone exited, and the directory was deleted
C17_Witness ==
  \E t \in Threads :
    /\ conn[t] = "closed" /\ Finished(t)
    /\ procs[child[t]].state = "exited"
    /\ hist[t].rmdirs = 1 /\ ~OwnDirExists(t) /\ resp[t] = <<>>

\* the decoder has run on the POST /deobfuscate request of thread t
Decoded(t) ==
  req[t].method = "POST" /\ req[t].path = "/deobfuscate" /\ hist[t].decoded

\* the declared body length of the request of thread t is absent, zero or negative
NoDeclaredBody(t) ==
  req[t].clen.k = "absent" \/ (req[t].clen.k = "int" /\ req[t].clen.n <= 0)

\* a declared length that is absent, zero or negative: nothing is read, the
\* payload is empty, nothing is staged or spawned, and the answer is the 400
ZeroLengthRejected(t) ==
  /\ hist[t].nread = 0 /\ rfile[t] = req[t].body
  /\ payload[t] = EmptyDict
  /\ hist[t].mkdirs = 0 /\ hist[t].spawns = 0
  /\ pc[t] # "faulted"
  /\ Finished(t) => (Len(resp[t]) = 1 /\ IsRejection(resp[t][1]))

\* C18 as stated: with an absent, zero or negative declared length the decoder
\* reads nothing and the request ends with the 400 rejection; with a positive
\* declared length it reads exactly that many bytes.
C18_ReadsDeclaredLength ==
  \A t \in Threads :
    Decoded(t) =>
      /\ NoDeclaredBody(t) => ZeroLengthRejected(t)
      /\ (req[t].clen.k = "int" /\ req[t].clen.n > 0) =>
           hist[t].nread = req[t].clen.n

\* C18 amended: with an absent, zero or negative declared length the decoder
\* reads nothing and the request ends with the 400 rejection; with a positive
\* declared length it reads that many bytes when the client sent at least as
\* many, all the bytes sent when the client sent fewer and stopped sending,
\* and never more than declared: the bytes after them stay unread.
C18_ReadsAtMostDeclaredLength ==
  \A t \in Threads :
    Decoded(t) =>
      /\ NoDeclaredBody(t) => ZeroLengthRejected(t)
      /\ (req[t].clen.k = "int" /\ req[t].clen.n > 0) =>
           /\ hist[t].nread = Min(req[t].clen.n, Len(req[t].body))
           /\ hist[t].nread <= req[t].clen.n
           /\ rfile[t] = SubSeq(req[t].body, hist[t].nread + 1, Len(req[t].body))

\* a request that declared fewer bytes than it sent was answered, and the byte
\* after the declared length is still unread
C18_Witness ==
  \E t \in Threads :
    /\ Decoded(t) /\ Finished(t)
    /\ req[t].clen.k = "int" /\ req[t].clen.n > 0
    /\ req[t].clen.n < Len(req[t].body)
    /\ hist[t].nread = req[t].clen.n
    /\ Len(rfile[t]) = 1
====
